---------------------------- MODULE Spec2Model ----------------------------
(***************************************************************************)
(* Model of the news parser in src/app.py: link discovery                  *)
(* (detect_news_links), content extraction (parse_news_content), the site  *)
(* orchestrator (process_site) and the batch endpoint (parse_news).        *)
(*                                                                         *)
(* Python strings are TLA+ strings; `in`, startswith, lower, join and the  *)
(* regular expressions are computed character by character.  The markup    *)
(* tree is the external document model: a page is given by what the        *)
(* queries of the code return on it (the anchors in document order, the    *)
(* paragraphs of a container after the navigation subtrees are removed).   *)
(* Non-ASCII literals of the source are written in transliteration.        *)
(***************************************************************************)
EXTENDS Integers, Sequences, FiniteSets, TLC

VARIABLES
    \* parse_news_content: one call
    ppc, cands, title, content_text, filtered_paragraphs, fp_bound, ci,
    strategy, ret,
    \* detect_news_links: two calls on the same page
    dpc, site, root, max_links, links_to_check, news_links, primary_links,
    run, returned,
    \* parse_news / process_site
    spc, urls, si, max_news, candidates, cj, result, attempted, site_news,
    all_news, response

parseVars  == <<ppc, cands, title, content_text, filtered_paragraphs, fp_bound,
                ci, strategy, ret>>
detectVars == <<dpc, site, root, max_links, links_to_check, news_links,
                primary_links, run, returned>>
siteVars   == <<spc, urls, si, max_news, candidates, cj, result, attempted,
                site_news, all_news, response>>
vars == <<parseVars, detectVars, siteVars>>

---------------------------------------------------------------------------
(* Bounds of the model *)

\* longest list of <p> elements a container, the main region or the page has
MaxParas == 3

\* most <a href> elements on a front page
MaxAnchors == 3

\* largest max_links detect_news_links is called with
MaxLinks == 2

\* calls of detect_news_links compared with each other
NumRuns == 2

\* largest max_news process_site is called with
MaxNews == 2

\* most <a href> elements on the front page process_site is run on
MaxSiteAnchors == 4

\* most site URLs in a request
MaxSites == 2

---------------------------------------------------------------------------
(* Python string operations *)

\* sub in s
Contains(sub, s) ==
    \E i \in 1..(Len(s) - Len(sub) + 1) : SubSeq(s, i, i + Len(sub) - 1) = sub

\* s.startswith(pre)
StartsWith(s, pre) == Len(s) >= Len(pre) /\ SubSeq(s, 1, Len(pre)) = pre

UpperLetters == "ABCDEFGHIJKLMNOPQRSTUVWXYZ"
LowerLetters == "abcdefghijklmnopqrstuvwxyz"

\* str.lower() on one character: a table from each upper-case letter
LowerTable ==
    [c \in {SubSeq(UpperLetters, i, i) : i \in 1..26} |->
        LET i == CHOOSE k \in 1..26 : SubSeq(UpperLetters, k, k) = c
        IN  SubSeq(LowerLetters, i, i)]

LowerChar(c) == IF c \in DOMAIN LowerTable THEN LowerTable[c] ELSE c

\* the characters lo..hi of s, lower-cased (split in halves: long strings)
RECURSIVE LowerRange(_, _, _)
LowerRange(s, lo, hi) ==
    IF lo > hi THEN ""
    ELSE IF lo = hi THEN LowerChar(SubSeq(s, lo, lo))
    ELSE LET mid == (lo + hi) \div 2
         IN  LowerRange(s, lo, mid) \o LowerRange(s, mid + 1, hi)

\* s.lower()
Lower(s) == LowerRange(s, 1, Len(s))

RECURSIVE JoinFrom(_, _)
JoinFrom(ps, i) ==
    IF i > Len(ps) THEN ""
    ELSE IF i = Len(ps) THEN ps[i]
    ELSE ps[i] \o " " \o JoinFrom(ps, i + 1)

\* " ".join(ps)
Join(ps) == JoinFrom(ps, 1)

Range(s) == {s[i] : i \in 1..Len(s)}

BoundedSeq(S, n) == UNION {[1..k -> S] : k \in 0..n}

---------------------------------------------------------------------------
(* parse_news_content: the page as the document model presents it *)

\* a query that found nothing (None)
NoNode == [node |-> FALSE]

\* an element or meta tag: content is tag.get('content', ''), text is
\* tag.get_text(strip=True)
Tag(content, text) == [node |-> TRUE, content |-> content, text |-> text]

\* a container with the texts of its <p> elements, in document order, as
\* find_all('p') returns them after the nav/share/... subtrees are decomposed
Container(paras) == [node |-> TRUE, paras |-> paras]

\* title when no candidate yields one ("Bez zagolovka" in Cyrillic)
NoTitle == "Bez zagolovka"

MinParagraphLen == 20
MinContentLen == 100
MinUniqueParagraphs == 3

\* the error-page phrases; the fourth is "stranitsa ne naydena" in Cyrillic
ErrorPhrases == {"404", "not found", "page not found", "stranitsa ne naydena"}

\* hasattr(candidate, 'get'): every Tag of the document model has get()
HasGet(candidate) == TRUE

\* lines 258-261: the text one candidate yields
CandidateTitle(candidate) ==
    IF HasGet(candidate) THEN candidate.content ELSE candidate.text

\* lines 256-263: the loop over title_candidates, from candidate k with the
\* title found so far ("" is None)
RECURSIVE TitleLoop(_, _, _)
TitleLoop(cs, k, t) ==
    IF k > Len(cs) THEN t
    ELSE IF ~cs[k].node THEN TitleLoop(cs, k + 1, t)
    ELSE LET t2 == CandidateTitle(cs[k])
         IN  IF t2 # "" THEN t2 ELSE TitleLoop(cs, k + 1, t2)

\* lines 247-266
ResolveTitle(cs) ==
    LET t == TitleLoop(cs, 1, "") IN IF t = "" THEN NoTitle ELSE t

\* [p.get_text(strip=True) for p in paragraphs if len(...) > 20]
FilterParagraphs(paras) == SelectSeq(paras, LAMBDA p : Len(p) > MinParagraphLen)

\* The locals of the body search: content_text, filtered_paragraphs and
\* whether filtered_paragraphs has been assigned at all.
Locals(text, fps, bound) ==
    [content_text |-> text, filtered_paragraphs |-> fps, fp_bound |-> bound]

NoLocals == Locals("", <<>>, FALSE)

\* lines 280-292: the body of the container loop for one container; TRUE in
\* brk when the loop breaks
ContainerStep(c, st) ==
    IF c.node /\ c.paras # <<>>
    THEN LET f == FilterParagraphs(c.paras)
         IN  IF f # <<>>
             THEN [st |-> Locals(Join(f), f, TRUE), brk |-> TRUE]
             ELSE [st |-> Locals(st.content_text, f, TRUE), brk |-> FALSE]
    ELSE [st |-> st, brk |-> FALSE]

\* lines 279-292
RECURSIVE ContainerLoop(_, _, _)
ContainerLoop(cs, k, st) ==
    IF k > Len(cs) THEN st
    ELSE LET r == ContainerStep(cs[k], st)
         IN  IF r.brk THEN r.st ELSE ContainerLoop(cs, k + 1, r.st)

\* lines 295-306: main is soup.find('main') or soup.find('body')
MainStrategy(main, st) ==
    IF st.content_text # "" \/ ~main.node THEN st
    ELSE LET f == FilterParagraphs(main.paras)
         IN  Locals(IF f # <<>> THEN Join(f) ELSE st.content_text, f, TRUE)

\* lines 309-313: allp is soup.find_all('p')
AllParagraphsStrategy(allp, st) ==
    IF st.content_text # "" THEN st
    ELSE LET f == FilterParagraphs(allp)
         IN  Locals(IF f # <<>> THEN Join(f) ELSE st.content_text, f, TRUE)

\* line 316
ContentTooShortNoLen(text) == text = ""
ContentTooShort(text) == text = "" \/ Len(text) < MinContentLen

\* line 321
IsErrorPage(text) ==
    LET lowered == Lower(text)
    IN  \E phrase \in ErrorPhrases : Contains(phrase, lowered)

\* line 326: set(filtered_paragraphs) if bound, else set()
ParagraphsNoSet(st) ==
    IF st.fp_bound
    THEN {<<i, st.filtered_paragraphs[i]>> : i \in 1..Len(st.filtered_paragraphs)}
    ELSE {}
ParagraphsSet(st) == IF st.fp_bound THEN Range(st.filtered_paragraphs) ELSE {}

\* None
NoRecord == [record |-> FALSE]

\* lines 315-335
QualityGate(url, t, st) ==
    IF ContentTooShort(st.content_text) THEN NoRecord
    ELSE IF IsErrorPage(st.content_text) THEN NoRecord
    ELSE IF Cardinality(ParagraphsSet(st)) < MinUniqueParagraphs THEN NoRecord
    ELSE [record |-> TRUE, url |-> url, title |-> t, content |-> st.content_text]

\* a fetched page: html is FALSE when fetch_page returned None or ""
Page(html, cs, containers, main, allp) ==
    [html |-> html, cands |-> cs, containers |-> containers, main |-> main,
     allp |-> allp]

\* lines 238-335: the whole function
ParseNewsContent(url, page) ==
    IF ~page.html THEN NoRecord
    ELSE LET t  == ResolveTitle(page.cands)
             s1 == ContainerLoop(page.containers, 1, NoLocals)
             s2 == MainStrategy(page.main, s1)
             s3 == AllParagraphsStrategy(page.allp, s2)
         IN  QualityGate(url, t, s3)

---------------------------------------------------------------------------
(* parse_news_content, step by step, on the pages of a small catalogue *)

\* texts of <p> elements: 20, 35, 37, 36, 21 and 27 characters
ParaCatalogue ==
    {"Read more news here.",
     "Storm damage closed the coast road.",
     "Officials said the lost hiker was not",
     "found on the ridge before nightfall.",
     "Repairs start Monday.",
     "Sorry, Page Not Found here."}

ParaLists == BoundedSeq(ParaCatalogue, MaxParas)

ContainerChoices == {NoNode} \cup {Container(ps) : ps \in ParaLists}

\* soup.find('h1'), select_one('.news-title, ...'), the og:title meta, the
\* meta named title, soup.find('title')
TitleCandidateChoices ==
    <<{NoNode, Tag("", "Bridge reopens after repairs")},
      {NoNode, Tag("", "Bridge reopens")},
      {NoNode, Tag("Bridge reopens | og", ""), Tag("", "")},
      {NoNode, Tag("Bridge reopens | meta", "")},
      {NoNode, Tag("", "Bridge reopens - A News")}>>

TitleCandidates ==
    {cs \in [1..5 -> UNION Range(TitleCandidateChoices)] :
        \A k \in 1..5 : cs[k] \in TitleCandidateChoices[k]}

\* len(content_containers), lines 272-277
NumContainers == 4

ArticleUrl == "https://a.io/news/123"

ParseIdle ==
    /\ ppc = "idle" /\ cands = <<>> /\ title = "" /\ content_text = ""
    /\ filtered_paragraphs = <<>> /\ fp_bound = FALSE /\ ci = 0
    /\ strategy = 0 /\ ret = NoRecord

CurrentLocals == Locals(content_text, filtered_paragraphs, fp_bound)

SetLocals(st) ==
    /\ content_text' = st.content_text
    /\ filtered_paragraphs' = st.filtered_paragraphs
    /\ fp_bound' = st.fp_bound

\* lines 240-242
PFetch ==
    /\ UNCHANGED <<detectVars, siteVars>>
    /\ ppc = "fetch"
    /\ \E html \in BOOLEAN :
         /\ ppc' = IF html THEN "title" ELSE "done"
         /\ ret' = NoRecord
    /\ UNCHANGED <<cands, title, content_text, filtered_paragraphs, fp_bound,
                   ci, strategy>>

\* lines 246-266
PTitle ==
    /\ UNCHANGED <<detectVars, siteVars>>
    /\ ppc = "title"
    /\ title' = ResolveTitle(cands)
    /\ ppc' = "containers"
    /\ ci' = 1
    /\ UNCHANGED <<cands, content_text, filtered_paragraphs, fp_bound,
                   strategy, ret>>

\* lines 279-292, one iteration: c is content_containers[ci]; ci is the
\* position in the loop and is 0 outside it
PContainer ==
    /\ UNCHANGED <<detectVars, siteVars>>
    /\ ppc = "containers"
    /\ \E c \in ContainerChoices :
         LET r == ContainerStep(c, CurrentLocals)
         IN  /\ SetLocals(r.st)
             /\ strategy' = IF r.brk THEN 1 ELSE strategy
             /\ ppc' = IF r.brk THEN "gate"
                       ELSE IF ci = NumContainers THEN "main" ELSE "containers"
             /\ ci' = IF r.brk \/ ci = NumContainers THEN 0 ELSE ci + 1
    /\ UNCHANGED <<cands, title, ret>>

\* lines 295-306
PMain ==
    /\ UNCHANGED <<detectVars, siteVars>>
    /\ ppc = "main"
    /\ \E main \in ContainerChoices :
         LET st == MainStrategy(main, CurrentLocals)
         IN  /\ SetLocals(st)
             /\ strategy' = IF st.content_text # "" THEN 2 ELSE strategy
             /\ ppc' = IF st.content_text # "" THEN "gate" ELSE "allp"
    /\ UNCHANGED <<cands, title, ci, ret>>

\* lines 309-313
PAllParagraphs ==
    /\ UNCHANGED <<detectVars, siteVars>>
    /\ ppc = "allp"
    /\ \E allp \in ParaLists :
         LET st == AllParagraphsStrategy(allp, CurrentLocals)
         IN  /\ SetLocals(st)
             /\ strategy' = IF st.content_text # "" THEN 3 ELSE strategy
    /\ ppc' = "gate"
    /\ UNCHANGED <<cands, title, ci, ret>>

\* lines 315-335
PGate ==
    /\ UNCHANGED <<detectVars, siteVars>>
    /\ ppc = "gate"
    /\ ret' = QualityGate(ArticleUrl, title, CurrentLocals)
    /\ ppc' = "done"
    /\ UNCHANGED <<cands, title, content_text, filtered_paragraphs, fp_bound,
                   ci, strategy>>

---------------------------------------------------------------------------
(* URLs: urllib.parse on the URL shapes of the catalogue *)

\* the least position >= from where sub occurs in s, 0 when none: s.find
Find(sub, s, from) ==
    LET hits == {i \in from..(Len(s) - Len(sub) + 1) :
                     SubSeq(s, i, i + Len(sub) - 1) = sub}
    IN  IF hits = {} THEN 0 ELSE CHOOSE i \in hits : \A j \in hits : i <= j

\* the least position >= from of a character of chars in s, Len(s) + 1 when none
FirstOf(chars, s, from) ==
    LET hits == {i \in from..Len(s) : Contains(SubSeq(s, i, i), chars)}
    IN  IF hits = {} THEN Len(s) + 1
        ELSE CHOOSE i \in hits : \A j \in hits : i <= j

\* where the authority of an absolute URL starts, 1 for a URL without "//"
AuthorityStart(u) ==
    IF Find("://", u, 1) > 0 THEN Find("://", u, 1) + 3
    ELSE IF StartsWith(u, "//") THEN 3 ELSE 1

HasAuthority(u) == Find("://", u, 1) > 0 \/ StartsWith(u, "//")

\* urlparse(u).scheme
SchemeOf(u) ==
    IF Find("://", u, 1) > 0 THEN SubSeq(u, 1, Find("://", u, 1) - 1) ELSE ""

\* urlparse(u).netloc
NetlocOf(u) ==
    IF HasAuthority(u)
    THEN SubSeq(u, AuthorityStart(u), FirstOf("/?#", u, AuthorityStart(u)) - 1)
    ELSE ""

\* urlparse(u).path
PathOf(u) ==
    LET start == IF HasAuthority(u) THEN FirstOf("/?#", u, AuthorityStart(u))
                 ELSE 1
    IN  SubSeq(u, start, FirstOf("?#", u, start) - 1)

\* urlsplit raises ValueError("Invalid IPv6 URL") on an unbalanced bracket
UrlRaises(u) ==
    LET netloc == NetlocOf(u)
    IN  (Contains("[", netloc) /\ ~Contains("]", netloc))
        \/ (Contains("]", netloc) /\ ~Contains("[", netloc))

\* line 61: f"{parsed_url.scheme}://{parsed_url.netloc}"
BaseUrl(url) == SchemeOf(url) \o "://" \o NetlocOf(url)

\* urljoin(base, href) for a base without path and an href without dot
\* segments: an href with a scheme stands, "//host/.." takes the base's
\* scheme, any other href is a path on the base
Urljoin(base, href) ==
    IF Find("://", href, 1) > 0 THEN href
    ELSE IF StartsWith(href, "//") THEN SchemeOf(base) \o ":" \o href
    ELSE IF StartsWith(href, "/") THEN base \o href
    ELSE base \o "/" \o href

---------------------------------------------------------------------------
(* re.search for the patterns of news_patterns *)

Digits == "0123456789"
SlugChars == "abcdefghijklmnopqrstuvwxyz0123456789-"

\* one pattern element: between lo and hi characters of cls (hi = -1: no limit)
Rep(cls, lo, hi) == [cls |-> cls, lo |-> lo, hi |-> hi]

\* a literal string as pattern elements
Lit(str) == [i \in 1..Len(str) |-> Rep(SubSeq(str, i, i), 1, 1)]

\* the number of characters of cls in s from position i on, at most limit
RECURSIVE RunLength(_, _, _, _)
RunLength(s, i, cls, limit) ==
    IF limit = 0 \/ i > Len(s) \/ ~Contains(SubSeq(s, i, i), cls) THEN 0
    ELSE 1 + RunLength(s, i + 1, cls, limit - 1)

\* pat[k..] matches s at position i
RECURSIVE MatchFrom(_, _, _, _)
MatchFrom(s, i, pat, k) ==
    IF k > Len(pat) THEN TRUE
    ELSE LET e == pat[k]
             longest == RunLength(s, i, e.cls, IF e.hi < 0 THEN Len(s) ELSE e.hi)
         IN  \E n \in e.lo..longest : MatchFrom(s, i + n, pat, k + 1)

\* re.search(pat, s)
Search(pat, s) == \E i \in 1..Len(s) : MatchFrom(s, i, pat, 1)

\* lines 76-86
news_patterns ==
    << Lit("/") \o <<Rep(Digits, 4, 4)>> \o Lit("/") \o <<Rep(Digits, 1, 2)>>
           \o Lit("/") \o <<Rep(Digits, 1, 2)>> \o Lit("/"),
       Lit("/news/") \o <<Rep(Digits, 1, -1)>>,
       Lit("/article/") \o <<Rep(Digits, 1, -1)>>,
       Lit("/") \o <<Rep(Digits, 4, -1)>> \o Lit("/") \o <<Rep(Digits, 1, 2)>>
           \o Lit("/") \o <<Rep(Digits, 1, 2)>> \o Lit("/")
           \o <<Rep(SlugChars, 1, -1)>>,
       Lit("/news/") \o <<Rep(SlugChars, 1, -1)>>,
       Lit("/article/") \o <<Rep(SlugChars, 1, -1)>>,
       Lit("/post/") \o <<Rep(SlugChars, 1, -1)>>,
       Lit("/story/") \o <<Rep(SlugChars, 1, -1)>>,
       Lit("/") \o <<Rep(SlugChars, 10, -1)>> >>

\* lines 64-73
exclude_patterns ==
    {"/tag/", "/tags/", "/contacts", "/contact", "/about", "/sotrudnichestvo",
     "/view_file.pdf", "/search", "/login", "/register", "/auth",
     "/rss", "/advertising", "/privacy", "/terms", ".jpg", ".png", ".pdf",
     "/category/", "/categories/", "/section/", "/sections/", "/topics/",
     "/feed/", "/subscriptions/", "/subscribe/", "/newsletter", "/newsletters/",
     "/latest/", "/popular/", "/archive/", "/authors/", "/team/",
     "?utm_source=", "?from=", "/pages/", "/help/", "/support/", "/dc/",
     "/newspaper/", "/crypto/", "/industries/", "/gorod/"}

\* line 192
headline_words ==
    {"says", "claims", "reports", "announced", "revealed", "launches",
     "introduces"}

---------------------------------------------------------------------------
(* detect_news_links: one link *)

\* an <a href> element: its href, its get_text(strip=True), whether it lies
\* in a news container (lines 92-108) and the level of the heading whose
\* first link it is (0: none)
Anchor(href, text, container, heading) ==
    [href |-> href, text |-> text, container |-> container, heading |-> heading]

\* The link element as the set of line 141 tells elements apart: bs4 tags
\* are equal when their name, attributes and contents are.
Element(a) == [href |-> a.href, text |-> a.text]

\* lines 152, 210
SkippedHref(href) ==
    href = "" \/ StartsWith(href, "#") \/ StartsWith(href, "javascript:")

\* lines 159, 217: parsed_url.netloc not in parsed_href.netloc
OtherDomain(url, full_url) == ~Contains(NetlocOf(url), NetlocOf(full_url))

\* lines 163, 221
IsExcludedCaseSensitive(full_url) ==
    \E pattern \in exclude_patterns : Contains(pattern, full_url)
IsExcluded(full_url) ==
    LET lowered == Lower(full_url)
    IN  \E pattern \in exclude_patterns : Contains(pattern, lowered)

\* lines 171-174, 225-226
MatchesNewsPattern(path) ==
    \E k \in 1..Len(news_patterns) : Search(news_patterns[k], path)

\* [s for s in path.split('/') if s], from position i with the segment cur
\* read so far
RECURSIVE SegmentsFrom(_, _, _)
SegmentsFrom(path, i, cur) ==
    IF i > Len(path) THEN (IF cur = "" THEN <<>> ELSE <<cur>>)
    ELSE IF SubSeq(path, i, i) = "/"
         THEN (IF cur = "" THEN <<>> ELSE <<cur>>) \o SegmentsFrom(path, i + 1, "")
         ELSE SegmentsFrom(path, i + 1, cur \o SubSeq(path, i, i))

Segments(path) == SegmentsFrom(path, 1, "")

HasDigit(str) == \E i \in 1..Len(str) : Contains(SubSeq(str, i, i), Digits)

\* lines 177-186
SegmentHeuristic(path) ==
    LET segments == Segments(path)
    IN  /\ Len(segments) >= 2
        /\ \/ Len(segments[Len(segments)]) > 10
           \/ \E k \in 1..Len(segments) : HasDigit(segments[k])

\* lines 189-193
HeadlineHeuristic(link_text) ==
    /\ link_text # "" /\ Len(link_text) > 30 /\ Len(link_text) < 200
    /\ \/ Contains(":", link_text)
       \/ LET lowered == Lower(link_text)
          IN  \E word \in headline_words : Contains(word, lowered)

\* what one iteration does with its link
Continue == [kind |-> "continue"]
Raise == [kind |-> "raise"]
NotNews == [kind |-> "no"]
News(full_url) == [kind |-> "news", full_url |-> full_url]

\* lines 149-193: the primary pass on one link, up to the decision
PrimaryOutcome(url, link) ==
    IF SkippedHref(link.href) THEN Continue
    ELSE IF UrlRaises(link.href) THEN Raise
    ELSE LET full_url == Urljoin(BaseUrl(url), link.href)
             path == PathOf(full_url)
         IN  IF OtherDomain(url, full_url) THEN Continue
             ELSE IF IsExcluded(full_url) THEN Continue
             ELSE IF \/ MatchesNewsPattern(path)
                     \/ SegmentHeuristic(path)
                     \/ HeadlineHeuristic(link.text)
                  THEN News(full_url)
                  ELSE NotNews

\* lines 209-230: the last-resort pass on one link, up to the decision
LastResortOutcome(url, link) ==
    IF SkippedHref(link.href) THEN Continue
    ELSE IF UrlRaises(link.href) THEN Raise
    ELSE LET full_url == Urljoin(BaseUrl(url), link.href)
         IN  IF OtherDomain(url, full_url) THEN Continue
             ELSE IF IsExcluded(full_url) THEN Continue
             ELSE IF MatchesNewsPattern(PathOf(full_url)) THEN News(full_url)
             ELSE NotNews

---------------------------------------------------------------------------
(* The front pages: anchors of a catalogue, in document order *)

SiteA == "https://a.io"
SiteB == "https://b.io/front"

AnchorCatalogue ==
    << Anchor("/news/123", "Bridge reopens after storm repairs", TRUE, 3),
       Anchor("https://a.io/2024/5/6/harbour-fire",
              "Harbour fire contained overnight", TRUE, 0),
       Anchor("https://a.io.evil.net/news/77",
              "Win a prize: click here now to claim", TRUE, 2),
       Anchor("https://other.net/story/partner",
              "Partner story of the day, read on", FALSE, 2),
       Anchor("/Tag/news/42", "All stories tagged harbour news", TRUE, 0),
       Anchor("/sport/42", "Cup final report and player ratings", FALSE, 0),
       Anchor("/live", "Mayor says the new bridge opens in June", FALSE, 0),
       Anchor("#top", "Back to the top of this page", TRUE, 0),
       Anchor("http://[a.io/news/1", "Broken link to an old news item", TRUE, 0),
       Anchor("/news/555", "More", FALSE, 0),
       Anchor("/story/ferry-strike", "Ferry strike enters second week", TRUE, 3),
       Anchor("https://a.io.evil.net/news/78", "Next", FALSE, 0) >>

Sites == {SiteA, SiteB}
Elements == {Element(a) : a \in Range(AnchorCatalogue)}

\* the decisions of the two passes, evaluated once for each site and link
PrimaryOutcomes ==
    [url \in Sites, link \in Elements |-> PrimaryOutcome(url, link)]
LastResortOutcomes ==
    [url \in Sites, link \in Elements |-> LastResortOutcome(url, link)]

\* a fetched front page; html is FALSE when fetch_page returned None or ""
FrontPage(html, anchors) == [html |-> html, anchors |-> anchors]

\* the anchors of the catalogue with their index in I, in document order
Pick(I) ==
    [k \in 1..Cardinality(I) |->
        AnchorCatalogue[CHOOSE i \in I : Cardinality({j \in I : j < i}) = k - 1]]

RootPages ==
    {FrontPage(FALSE, <<>>)} \cup
    {FrontPage(TRUE, Pick(I)) :
        I \in {J \in SUBSET (1..Len(AnchorCatalogue)) : Cardinality(J) <= MaxAnchors}}

---------------------------------------------------------------------------
(* detect_news_links: the passes *)

\* lines 113-124: the heading links of the news containers, then their
\* links with more than 15 characters of text
ContainerLinks(anchors) ==
    SelectSeq(anchors, LAMBDA a : a.container /\ a.heading \in 1..4)
    \o SelectSeq(anchors, LAMBDA a : a.container /\ a.text # "" /\ Len(a.text) > 15)

\* lines 127-138: the h2/h3 links of the page, then its links with a text
\* of headline length
HeadlineLinks(anchors) ==
    SelectSeq(anchors, LAMBDA a : a.heading \in {2, 3})
    \o SelectSeq(anchors,
                 LAMBDA a : a.text # "" /\ Len(a.text) > 30 /\ Len(a.text) < 150)

\* lines 110-138
CollectLinks(anchors) ==
    IF ContainerLinks(anchors) # <<>> THEN ContainerLinks(anchors)
    ELSE HeadlineLinks(anchors)

\* lines 141-144
UniqueLinks(links) == {Element(links[i]) : i \in 1..Len(links)}

\* list(S): the elements of a set in the order its hashing gives, which is
\* any order
Orderings(S) == {f \in [1..Cardinality(S) -> S] : Range(f) = S}

PassResult(links, raised) == [news_links |-> links, raised |-> raised]

\* lines 148-201 from the k-th link on, with the links accepted so far
RECURSIVE PrimaryLoop(_, _, _, _, _)
PrimaryLoop(url, links, k, acc, limit) ==
    IF k > Len(links) THEN PassResult(acc, FALSE)
    ELSE LET o == PrimaryOutcomes[url, links[k]]
             acc2 == IF o.kind = "news" THEN acc \cup {o.full_url} ELSE acc
         IN  IF o.kind = "continue" THEN PrimaryLoop(url, links, k + 1, acc, limit)
             ELSE IF o.kind = "raise" THEN PassResult(acc, TRUE)
             ELSE IF Cardinality(acc2) >= limit THEN PassResult(acc2, FALSE)
             ELSE PrimaryLoop(url, links, k + 1, acc2, limit)

\* lines 208-234 from the k-th anchor of the page on
RECURSIVE LastResortLoop(_, _, _, _, _)
LastResortLoop(url, anchors, k, acc, limit) ==
    IF k > Len(anchors) THEN PassResult(acc, FALSE)
    ELSE LET o == LastResortOutcomes[url, Element(anchors[k])]
             acc2 == IF o.kind = "news" THEN acc \cup {o.full_url} ELSE acc
         IN  IF o.kind = "continue"
             THEN LastResortLoop(url, anchors, k + 1, acc, limit)
             ELSE IF o.kind = "raise" THEN PassResult(acc, TRUE)
             ELSE IF Cardinality(acc2) >= limit THEN PassResult(acc2, FALSE)
             ELSE LastResortLoop(url, anchors, k + 1, acc2, limit)

\* what a call returns: a list, or the exception it raised
Links(links) == [raised |-> FALSE, links |-> links]
Raised == [raised |-> TRUE, links |-> <<>>]

\* lines 52-236: every outcome of detect_news_links(url, max_links) on a page
DetectNewsLinks(url, page, limit) ==
    IF ~page.html THEN {Links(<<>>)}
    ELSE UNION {
        LET p == PrimaryLoop(url, order, 1, {}, limit)
            q == IF ~p.raised /\ p.news_links = {}
                 THEN LastResortLoop(url, page.anchors, 1, {}, limit)
                 ELSE p
        IN  IF q.raised THEN {Raised}
            ELSE {Links(out) : out \in Orderings(q.news_links)} :
        order \in Orderings(UniqueLinks(CollectLinks(page.anchors)))}

---------------------------------------------------------------------------
(* detect_news_links, step by step, called twice on one front page *)

DetectStart ==
    /\ dpc' = "fetch" /\ links_to_check' = <<>> /\ news_links' = {}
    /\ primary_links' = {}

\* the call ends with outcome out: the next call starts, or both are over
DetectEnd(out) ==
    /\ returned' = Append(returned, out)
    /\ IF run < NumRuns
       THEN run' = run + 1 /\ DetectStart
       ELSE /\ run' = run /\ dpc' = "done"
            /\ UNCHANGED <<links_to_check, news_links, primary_links>>

\* lines 54-56
DFetch ==
    /\ UNCHANGED <<parseVars, siteVars>>
    /\ dpc = "fetch"
    /\ IF root.html
       THEN /\ dpc' = "collect"
            /\ UNCHANGED <<links_to_check, news_links, primary_links, run,
                           returned>>
       ELSE DetectEnd(Links(<<>>))
    /\ UNCHANGED <<site, root, max_links>>

\* lines 88-145
DCollect ==
    /\ UNCHANGED <<parseVars, siteVars>>
    /\ dpc = "collect"
    /\ links_to_check' \in Orderings(UniqueLinks(CollectLinks(root.anchors)))
    /\ dpc' = "primary"
    /\ UNCHANGED <<site, root, max_links, news_links, primary_links, run,
                   returned>>

\* lines 147-201; primary_links keeps what this pass accepted
DPrimary ==
    /\ UNCHANGED <<parseVars, siteVars>>
    /\ dpc = "primary"
    /\ LET p == PrimaryLoop(site, links_to_check, 1, {}, max_links)
       IN  IF p.raised
           THEN DetectEnd(Raised)
           ELSE /\ news_links' = p.news_links
                /\ primary_links' = p.news_links
                /\ dpc' = IF p.news_links = {} THEN "lastresort" ELSE "return"
                /\ UNCHANGED <<links_to_check, run, returned>>
    /\ UNCHANGED <<site, root, max_links>>

\* lines 203-234
DLastResort ==
    /\ UNCHANGED <<parseVars, siteVars>>
    /\ dpc = "lastresort"
    /\ LET q == LastResortLoop(site, root.anchors, 1, news_links, max_links)
       IN  IF q.raised
           THEN DetectEnd(Raised)
           ELSE /\ news_links' = q.news_links
                /\ dpc' = "return"
                /\ UNCHANGED <<links_to_check, primary_links, run, returned>>
    /\ UNCHANGED <<site, root, max_links>>

\* line 236
DReturn ==
    /\ UNCHANGED <<parseVars, siteVars>>
    /\ dpc = "return"
    /\ \E out \in Orderings(news_links) : DetectEnd(Links(out))
    /\ UNCHANGED <<site, root, max_links>>

---------------------------------------------------------------------------
(* process_site and parse_news *)

\* max_news of process_site when parse_news calls it (line 337)
DefaultMaxNews == 5

\* line 342: max_links=max_news * 2
LinksFactor == 2

\* the pages the candidate links lead to
ArticlePages ==
    { \* the fetch failed
      Page(FALSE, <<>>, <<>>, NoNode, <<>>),
      \* an article: og:title and three paragraphs in the first container
      Page(TRUE,
           <<Tag("", "Bridge reopens"), NoNode, Tag("Bridge reopens | og", ""),
             NoNode, Tag("", "Bridge reopens - A News")>>,
           <<Container(<<"Storm damage closed the coast road.",
                         "found on the ridge before nightfall.",
                         "Read more news here.",
                         "Officials said the lost hiker was not">>),
             NoNode, NoNode, NoNode>>,
           NoNode, <<>>),
      \* a listing: the same teaser three times, found in <body>
      Page(TRUE,
           <<NoNode, NoNode, NoNode, NoNode, Tag("", "A News")>>,
           <<NoNode, NoNode, NoNode, NoNode>>,
           Container(<<"Storm damage closed the coast road.",
                       "Storm damage closed the coast road.",
                       "Storm damage closed the coast road.">>),
           <<>>),
      \* an error page
      Page(TRUE,
           <<NoNode, NoNode, NoNode, NoNode, Tag("", "Error")>>,
           <<NoNode, NoNode, NoNode, NoNode>>,
           NoNode,
           <<"Storm damage closed the coast road.",
             "Sorry, Page Not Found here.",
             "Officials said the lost hiker was not">>) }

\* the URLs discovery can return on the catalogue
CatalogueUrls ==
    {PrimaryOutcomes[x[1], x[2]].full_url :
        x \in {y \in Sites \X Elements : PrimaryOutcomes[y[1], y[2]].kind = "news"}}

\* parse_news_content on each candidate URL and page, evaluated once
ArticleOutcomes ==
    [url \in CatalogueUrls, page \in ArticlePages |-> ParseNewsContent(url, page)]

\* the front pages process_site is run on
SiteRootPages ==
    {FrontPage(FALSE, <<>>)} \cup
    {FrontPage(TRUE, Pick(I)) :
        I \in {J \in SUBSET {1, 2, 3, 6, 9, 10, 11} : Cardinality(J) <= MaxSiteAnchors}}

\* the front pages of a batch
BatchRootPages ==
    {FrontPage(FALSE, <<>>), FrontPage(TRUE, Pick({1, 2})),
     FrontPage(TRUE, Pick({1, 9})), FrontPage(TRUE, Pick({6}))}

\* line 359
ReachedMaxNewsStrict(records, cap) == Len(records) > cap
ReachedMaxNews(records, cap) == Len(records) >= cap

\* line 379: all_news.extend(site_news)
ExtendReplacing(news, more) == more
Extend(news, more) == news \o more

NoResponse == [status |-> 0]
BadRequest == [status |-> 400]
NewsResponse(total, news) == [status |-> 200, total |-> total, news |-> news]

\* what one attempt at a candidate did
Attempt(url, data) == [url |-> url, ok |-> data.record]

\* what one call of process_site did
SiteRun(url, html, raised, news) ==
    [url |-> url, html |-> html, raised |-> raised, news |-> news]

\* lines 339-348: the call of detect_news_links on the front page the fetch
\* gives; site, root, max_links and returned keep the call and its outcome
SDiscover(pages) ==
    /\ spc = "process_site"
    /\ \E page \in pages :
         \E out \in DetectNewsLinks(urls[si], page, max_news * LinksFactor) :
            /\ site' = urls[si]
            /\ root' = page
            /\ max_links' = max_news * LinksFactor
            /\ returned' = <<out>>
            /\ candidates' = out.links
            /\ spc' = IF out.raised \/ out.links = <<>> THEN "return"
                      ELSE "candidate"
    /\ result' = <<>>
    /\ attempted' = <<>>
    /\ cj' = 1
    /\ UNCHANGED <<urls, si, max_news, site_news, all_news, response>>
    /\ UNCHANGED <<dpc, links_to_check, news_links, primary_links, run>>
    /\ UNCHANGED parseVars

\* lines 351-362, one iteration: the candidate's page is whatever the fetch
\* gives
SCandidate ==
    /\ spc = "candidate"
    /\ \E page \in ArticlePages :
         LET news_data == ArticleOutcomes[candidates[cj], page]
             result2 == IF news_data.record THEN Append(result, news_data)
                        ELSE result
         IN  /\ attempted' = Append(attempted, Attempt(candidates[cj], news_data))
             /\ result' = result2
             /\ spc' = IF \/ news_data.record /\ ReachedMaxNews(result2, max_news)
                          \/ cj = Len(candidates)
                       THEN "return" ELSE "candidate"
    /\ cj' = cj + 1
    /\ UNCHANGED <<urls, si, max_news, candidates, site_news, all_news, response>>
    /\ UNCHANGED <<detectVars, parseVars>>

\* lines 364-368: process_site returns result, also after an exception
SReturn ==
    /\ spc = "return"
    /\ site_news' = Append(site_news,
                           SiteRun(site, root.html, returned[1].raised, result))
    /\ spc' = "returned"
    /\ UNCHANGED <<urls, si, max_news, candidates, cj, result, attempted,
                   all_news, response>>
    /\ UNCHANGED <<detectVars, parseVars>>

\* lines 373-377
BValidate ==
    /\ spc = "parse_news"
    /\ IF urls = <<>>
       THEN /\ response' = BadRequest
            /\ spc' = "done"
            /\ UNCHANGED <<si, max_news>>
       ELSE /\ si' = 1
            /\ max_news' = DefaultMaxNews
            /\ spc' = "process_site"
            /\ UNCHANGED response
    /\ all_news' = <<>>
    /\ UNCHANGED <<urls, candidates, cj, result, attempted, site_news>>
    /\ UNCHANGED <<detectVars, parseVars>>

\* lines 377-384: the result of a site joins all_news; the next site is
\* processed, or the response is returned
BExtend ==
    /\ spc = "returned"
    /\ all_news' = Extend(all_news, result)
    /\ IF si < Len(urls)
       THEN /\ si' = si + 1
            /\ spc' = "process_site"
            /\ UNCHANGED response
       ELSE /\ response' = NewsResponse(Len(all_news'), all_news')
            /\ spc' = "done"
            /\ UNCHANGED si
    /\ UNCHANGED <<urls, max_news, candidates, cj, result, attempted, site_news>>
    /\ UNCHANGED <<detectVars, parseVars>>

SDiscoverSite == SDiscover(SiteRootPages)
SDiscoverBatch == SDiscover(BatchRootPages)

---------------------------------------------------------------------------
(* SPECS *)

DetectIdle ==
    /\ dpc = "idle" /\ site = "" /\ root = FrontPage(FALSE, <<>>)
    /\ max_links = 0
    /\ links_to_check = <<>> /\ news_links = {} /\ primary_links = {}
    /\ run = 0 /\ returned = <<>>

SiteIdle ==
    /\ spc = "idle" /\ urls = <<>> /\ si = 0 /\ max_news = 0
    /\ candidates = <<>> /\ cj = 0 /\ result = <<>> /\ attempted = <<>>
    /\ site_news = <<>> /\ all_news = <<>> /\ response = NoResponse

(* One call of parse_news_content on any page of the catalogue *)

InitParse ==
    /\ ppc = "fetch"
    /\ cands \in TitleCandidates
    /\ title = "" /\ content_text = "" /\ filtered_paragraphs = <<>>
    /\ fp_bound = FALSE /\ ci = 0 /\ strategy = 0 /\ ret = NoRecord
    /\ DetectIdle
    /\ SiteIdle

NextParse ==
    \/ PFetch
    \/ PTitle
    \/ PContainer
    \/ PMain
    \/ PAllParagraphs
    \/ PGate

SpecParse == InitParse /\ [][NextParse]_vars

(* Two calls of detect_news_links on the same site and front page *)

InitDetect ==
    /\ dpc = "fetch"
    /\ site \in Sites
    /\ root \in RootPages
    /\ max_links \in 0..MaxLinks
    /\ links_to_check = <<>> /\ news_links = {} /\ primary_links = {}
    /\ run = 1 /\ returned = <<>>
    /\ ParseIdle
    /\ SiteIdle

NextDetect ==
    \/ DFetch
    \/ DCollect
    \/ DPrimary
    \/ DLastResort
    \/ DReturn

SpecDetect == InitDetect /\ [][NextDetect]_vars

---------------------------------------------------------------------------
(* Claims about parse_news_content *)

Returned == ppc = "done" /\ ret.record

\* C4: a returned record has at least 100 characters of content, and its
\* lower-cased content contains no error-page phrase, whichever strategy
\* produced the content.
C4_QualityGateLengthAndMarker ==
    Returned =>
        /\ Len(ret.content) >= 100
        /\ \A phrase \in {"404", "not found", "page not found",
                          "stranitsa ne naydena"} :
               ~Contains(phrase, Lower(ret.content))

\* a record whose content the last strategy (all <p> of the page) produced
C4_Witness == Returned /\ strategy = 3 /\ Len(ret.content) >= 100

\* C5: the returned content is the join of the filtered paragraphs the
\* uniqueness check reads, all of them longer than 20 characters, and they
\* have at least 3 distinct members; whenever the gate is reached with
\* content, filtered_paragraphs is the list that content was joined from.
C5_UniqueParagraphsOfWinner ==
    /\ (ppc = "gate" /\ content_text # "") =>
           fp_bound /\ content_text = Join(filtered_paragraphs)
    /\ Returned =>
           /\ fp_bound
           /\ ret.content = Join(filtered_paragraphs)
           /\ \A i \in 1..Len(filtered_paragraphs) :
                  Len(filtered_paragraphs[i]) > 20
           /\ Cardinality({filtered_paragraphs[i] :
                               i \in 1..Len(filtered_paragraphs)}) >= 3

\* a record from the main/body strategy, reached after every container of
\* the first strategy failed
C5_Witness ==
    Returned /\ strategy = 2 /\ Len(filtered_paragraphs) >= 3

\* the title the claim describes: elements (candidates 1, 2 and 5) yield
\* their visible text, meta tags (candidates 3 and 4) their content attribute
ClaimedCandidateTitle(cs, k) == IF k \in {3, 4} THEN cs[k].content ELSE cs[k].text

ClaimedTitle(cs) ==
    LET yields == {k \in 1..Len(cs) : cs[k].node /\ ClaimedCandidateTitle(cs, k) # ""}
    IN  IF yields = {} THEN NoTitle
        ELSE ClaimedCandidateTitle(cs, CHOOSE k \in yields : \A j \in yields : k <= j)

\* C6: the title of a returned record is the text of the first candidate
\* that yields non-empty text, elements yielding their visible text and meta
\* tags their content attribute; the fallback literal only if none does.
C6_TitleResolution == Returned => ret.title = ClaimedTitle(cands)

---------------------------------------------------------------------------
(* More specifications *)

SiteStart ==
    /\ candidates = <<>> /\ cj = 0 /\ result = <<>> /\ attempted = <<>>
    /\ site_news = <<>> /\ all_news = <<>> /\ response = NoResponse

(* One call process_site(url, max_news) *)

InitSite ==
    /\ spc = "process_site"
    /\ urls \in {<<SiteA>>}
    /\ si = 1
    /\ max_news \in 0..MaxNews
    /\ SiteStart
    /\ DetectIdle
    /\ ParseIdle

NextSite ==
    \/ SDiscoverSite
    \/ SCandidate
    \/ SReturn

SpecSite == InitSite /\ [][NextSite]_vars

(* One request to parse_news *)

InitBatch ==
    /\ spc = "parse_news"
    /\ urls \in BoundedSeq(Sites, MaxSites)
    /\ si = 0
    /\ max_news = 0
    /\ SiteStart
    /\ DetectIdle
    /\ ParseIdle

NextBatch ==
    \/ BValidate
    \/ SDiscoverBatch
    \/ SCandidate
    \/ SReturn
    \/ BExtend

SpecBatch == InitBatch /\ [][NextBatch]_vars

---------------------------------------------------------------------------
(* Claims about detect_news_links *)

\* every URL a finished call returned
ReturnedUrls == UNION {Range(returned[r].links) : r \in 1..Len(returned)}

\* the host of each URL of the catalogue
HostOf == [u \in CatalogueUrls |-> NetlocOf(u)]

\* the URLs of the catalogue that contain an entry of the exclusion list
\* once lower-cased, and the links that lead to one
ExcludedUrl(u) == \E pattern \in exclude_patterns : Contains(pattern, Lower(u))

FullUrls ==
    [url \in Sites, link \in Elements |->
        IF SkippedHref(link.href) \/ UrlRaises(link.href) THEN ""
        ELSE Urljoin(BaseUrl(url), link.href)]

ExcludedLinks ==
    [url \in Sites |->
        {link \in Elements : FullUrls[url, link] # ""
                             /\ ExcludedUrl(FullUrls[url, link])}]

PatternLinks ==
    [url \in Sites |->
        {link \in Elements : FullUrls[url, link] # ""
                             /\ MatchesNewsPattern(PathOf(FullUrls[url, link]))}]

\* C2: every URL detect_news_links returns has the host of the site URL.
C2_OriginInvariant == \A u \in ReturnedUrls : HostOf[u] = NetlocOf(site)

\* C3: no pass ever accepts, and no call ever returns, a link whose
\* lower-cased absolute URL contains an entry of the exclusion list.
C3_ExclusionPrecedence ==
    \A link \in ExcludedLinks[site] :
        FullUrls[site, link] \notin (news_links \cup ReturnedUrls)

\* the primary pass went over an excluded link whose path matches an
\* article pattern, and the call returned other links
C3_Witness ==
    /\ dpc = "done"
    /\ \E k \in 1..Len(links_to_check) :
           links_to_check[k] \in ExcludedLinks[site] \cap PatternLinks[site]
    /\ returned[NumRuns].links # <<>>

\* C8: calls of detect_news_links on the same markup, site URL and
\* max_links that both return, return the same URLs in the same order.
C8_Determinism ==
    dpc = "done" =>
        \A r \in 1..Len(returned) :
            (~returned[r].raised /\ ~returned[1].raised) =>
                returned[r].links = returned[1].links

\* C10: the last-resort pass runs only when the primary pass accepted
\* nothing; otherwise the result is the primary pass's set; what the
\* last-resort pass accepts is an anchor of the page on the site's own
\* host, not excluded, with a path matching an article pattern, and it
\* accepts at most max_links links.
C10_LastResortGating ==
    /\ dpc = "lastresort" => primary_links = {} /\ news_links = {}
    /\ (dpc = "return" /\ primary_links # {}) => news_links = primary_links
    /\ (dpc = "return" /\ primary_links = {}) =>
          /\ Cardinality(news_links) <= max_links
          /\ \A u \in news_links :
                /\ HostOf[u] = NetlocOf(site)
                /\ \E k \in 1..Len(root.anchors) :
                      LET link == Element(root.anchors[k])
                      IN  /\ FullUrls[site, link] = u
                          /\ link \notin ExcludedLinks[site]
                          /\ link \in PatternLinks[site]

---------------------------------------------------------------------------
(* Claims about process_site and parse_news *)

\* C1: process_site(url, max_news) returns at most max_news records, for
\* every max_news >= 0.
C1_CapInvariant == spc = "returned" => Len(result) <= max_news

Successes(att) == Cardinality({k \in 1..Len(att) : att[k].ok})

\* C9: with max_news >= 1, discovery is asked for 2 * max_news links; the
\* candidates are attempted in the order discovery returned them; result
\* is the records of the successful attempts in that order; no candidate is
\* attempted once max_news records are there; at the end the attempted
\* candidates end at the max_news-th record, or are all candidates.
C9_CandidateProcessing ==
    (max_news >= 1 /\ spc \in {"candidate", "return", "returned"}) =>
        /\ max_links = 2 * max_news
        /\ Len(attempted) <= Len(candidates)
        /\ \A k \in 1..Len(attempted) : attempted[k].url = candidates[k]
        /\ [k \in 1..Len(result) |-> result[k].url]
             = [k \in 1..Successes(attempted) |->
                    SelectSeq(attempted, LAMBDA a : a.ok)[k].url]
        /\ \A k \in 1..(Len(attempted) - 1) :
               Successes(SubSeq(attempted, 1, k)) < max_news
        /\ spc = "candidate" =>
               /\ Len(attempted) < Len(candidates)
               /\ Successes(attempted) < max_news
        /\ spc \in {"return", "returned"} =>
               \/ /\ Successes(attempted) = max_news
                  /\ attempted[Len(attempted)].ok
               \/ /\ Successes(attempted) < max_news
                  /\ Len(attempted) = Len(candidates)

\* a first candidate that yielded nothing, a second that gave the
\* max_news-th record, and a third that was never attempted
C9_Witness ==
    /\ spc = "returned" /\ max_news >= 1
    /\ Len(result) = max_news
    /\ Len(attempted) < Len(candidates)
    /\ \E k \in 1..Len(attempted) : ~attempted[k].ok

RECURSIVE ConcatNews(_, _)
ConcatNews(runs, k) ==
    IF k > Len(runs) THEN <<>> ELSE runs[k].news \o ConcatNews(runs, k + 1)

\* C7: parse_news on a non-empty list calls process_site on every URL in
\* list order, whatever failed before; a site whose front page could not
\* be fetched contributes nothing; news is the concatenation of the sites'
\* results in site order and total is its length.
C7_BatchIsolation ==
    /\ Len(site_news) <= Len(urls)
    /\ \A i \in 1..Len(site_news) :
           /\ site_news[i].url = urls[i]
           /\ ~site_news[i].html => site_news[i].news = <<>>
    /\ (spc = "done" /\ urls # <<>>) =>
           /\ Len(site_news) = Len(urls)
           /\ response.status = 200
           /\ response.news = ConcatNews(site_news, 1)
           /\ response.total = Len(response.news)

\* a request of two sites: discovery raised on the first, which gave
\* nothing, and the second gave the records of the response
C7_Witness ==
    /\ spc = "done" /\ Len(urls) = 2
    /\ site_news[1].raised
    /\ site_news[2].news # <<>>
    /\ response.news = site_news[2].news

=============================================================================
